---- MODULE Spec2Model ----
(***************************************************************************)
(* A model of libpopcnt (src/libpopcnt.h): the CPUID capability detector,  *)
(* the process-wide cpuid_ cache of the C build, the vector kernels and    *)
(* the four popcnt(data, size) dispatchers (x86, ARM SVE, ARM NEON, all    *)
(* other CPUs); the word counters, popcnt256, popcnt_avx2 and             *)
(* popcnt_avx512 on their own; and popcnt_harley_seal and popcnt(data,     *)
(* size) of the older src/popcnt.h.                                        *)
(*                                                                         *)
(* Representation.  TLC integers are 32 bits wide, so a uint64_t that      *)
(* holds DATA is a little-endian sequence of 8 bytes, an __m256i is a      *)
(* sequence of 32 bytes and an __m512i is a sequence of 8 words.  Counters *)
(* and indexes (i, cnt, size) are plain integers: with the buffer sizes    *)
(* explored here they stay far below 2^31, so no uint64_t index wraps.     *)
(* The x86 build modelled is the one with HAVE_POPCNT, HAVE_AVX2,          *)
(* HAVE_AVX512 and HAVE_CPUID defined and no -m flags, i.e. every tier is  *)
(* compiled in and selected at run time.                                   *)
(***************************************************************************)
EXTENDS Integers, Sequences, FiniteSets, TLC

VARIABLES
    arch,      \* which popcnt() of libpopcnt.h was compiled
    pc,        \* position inside popcnt()
    pat,       \* contents of the caller's buffer: <<kind, parameter>>
    size,      \* popcnt()'s size argument (bytes); NEON/SVE reduce it
    n0,        \* the length of the caller's buffer (size at the call)
    addr,      \* (uintptr_t) data % 8
    junk,      \* the byte that lives in memory outside the buffer
    hw,        \* what CPUID and XGETBV answer on this machine
    cpuid,     \* the local `cpuid` of x86 popcnt()
    vl,        \* svcntd(): 64-bit lanes per SVE vector
    ptr,       \* byte offset of `ptr` from data (NEON advances ptr)
    i,         \* the local `i`
    cnt,       \* the local `cnt`
    rdmax,     \* 1 + highest byte offset read so far, 0 if nothing was read
    kernel,    \* vector kernels invoked by this call
    iters,     \* NEON: the local `iters`
    limit,     \* NEON: the local `limit`
    tacc,      \* NEON: <<t0, t1, t2, t3>>, 16 uint8 lanes each
    sum,       \* NEON: the 2 lanes of `sum`; SVE: the lanes of `vcnt`
    word,      \* the argument x of the word counters popcnt64 / popcnt64_bitwise
    ret,       \* what each word counter returned for `word`
    regs,      \* the locals of the vector kernel that is running
    cpuid_,    \* C build of x86 popcnt(): static int cpuid_ = -1
    tpc,       \* per thread: position inside the cpuid_ block of popcnt()
    tlocal,    \* per thread: its local `cpuid`
    tused,     \* per thread: <<the flags its last finished call dispatched on>>
    tcalls,    \* per thread: calls made so far
    tdet,      \* per thread: get_cpuid() was invoked by the current call
    tstart     \* per thread: cpuid_ at the moment the current call started

bufvars == <<arch, pc, pat, size, n0, addr, junk, hw, cpuid, vl, ptr, i, cnt,
             rdmax, kernel, iters, limit, tacc, sum, word, ret, regs>>

cachev == <<cpuid_, tpc, tlocal, tused, tcalls, tdet, tstart>>

vars == <<bufvars, cachev>>

\* what no action of a single popcnt() call on a buffer changes
bufferv == <<arch, pat, n0, addr, junk, hw, vl, cachev>>
kernv == <<word, ret, regs>>
callerv == <<bufferv, kernv>>
neonv == <<iters, limit, tacc, sum>>

----------------------------------------------------------------------------
(* Bits and bytes *)

RECURSIVE Bits(_)
Bits(n) == IF n = 0 THEN 0 ELSE (n % 2) + Bits(n \div 2)

RECURSIVE AndInt(_, _)
AndInt(a, b) ==
    IF a = 0 \/ b = 0 THEN 0
    ELSE (a % 2) * (b % 2) + 2 * AndInt(a \div 2, b \div 2)

\* f as an explicit tuple.  TLC keeps [k \in S |-> e] unevaluated and
\* recomputes e at every application; concatenation makes it a tuple once.
Tup(f) == f \o <<>>

BitTable == Tup([k \in 1..256 |-> Bits(k - 1)])

\* number of 1 bits of a byte: the per-byte reference count, and what the
\* POPCNT / VPOPCNTQ / CNT instructions deliver for each byte of their operand
BitCount(b) == BitTable[b + 1]

NibTable == Tup([k \in 1..256 |-> AndInt((k - 1) \div 16, (k - 1) % 16)])

ByteAnd(a, b) ==
    NibTable[16 * (a % 16) + (b % 16) + 1]
    + 16 * NibTable[16 * (a \div 16) + (b \div 16) + 1]
ByteOr(a, b)  == a + b - ByteAnd(a, b)
ByteXor(a, b) == a + b - 2 * ByteAnd(a, b)

Pow2(n) == CASE n = 0 -> 1 [] n = 1 -> 2 [] n = 2 -> 4 [] n = 3 -> 8
             [] n = 4 -> 16 [] n = 5 -> 32 [] n = 6 -> 64 [] n = 7 -> 128
             [] n = 8 -> 256

Min(a, b) == IF a < b THEN a ELSE b

----------------------------------------------------------------------------
(* uint64_t values as 8 little-endian bytes *)

Rep8(b) == Tup([k \in 1..8 |-> b])

\* (uint64_t) of one byte
ZeroExt(b) == Tup([k \in 1..8 |-> IF k = 1 THEN b ELSE 0])

ByteOf(x, k) == IF k <= Len(x) THEN x[k] ELSE 0

\* x >> n
Shr64(x, n) ==
    LET q == n \div 8
        r == n % 8
    IN  Tup([k \in 1..8 |->
            ((ByteOf(x, k + q) + 256 * ByteOf(x, k + q + 1)) \div Pow2(r)) % 256])

And64(x, y) == Tup([k \in 1..8 |-> ByteAnd(x[k], y[k])])

RECURSIVE Carry(_, _, _)
\* the carry (borrow, when negative) into byte k of the column sums c
Carry(c, k, base) ==
    IF k = 1 THEN base ELSE (c[k - 1] + Carry(c, k - 1, base)) \div 256

\* column sums to bytes, modulo 2^64 (\div and % round towards minus infinity)
Norm64(c) == Tup([k \in 1..8 |-> (c[k] + Carry(c, k, 0)) % 256])

Add64(x, y) == Norm64(Tup([k \in 1..8 |-> x[k] + y[k]]))
Sub64(x, y) == Norm64(Tup([k \in 1..8 |-> x[k] - y[k]]))

RECURSIVE Column(_, _, _, _)
Column(x, y, k, a) ==
    IF a > k THEN 0 ELSE x[a] * y[k + 1 - a] + Column(x, y, k, a + 1)

Mul64(x, y) == Norm64(Tup([k \in 1..8 |-> Column(x, y, k, 1)]))

\* the numeric value of a word known to be below 256
Low8(x) == x[1]

\* popcnt64_bitwise without the multiplication that adds the 8 byte counts
popcnt64_bitwise_no_mul(x0) ==
    LET m1  == Rep8(85)
        m2  == Rep8(51)
        m4  == Rep8(15)
        x1  == Sub64(x0, And64(Shr64(x0, 1), m1))
        x2  == Add64(And64(x1, m2), And64(Shr64(x1, 2), m2))
        x3  == And64(Add64(x2, Shr64(x2, 4)), m4)
    IN  Low8(Shr64(x3, 56))

popcnt64_bitwise(x0) ==
    LET m1  == Rep8(85)
        m2  == Rep8(51)
        m4  == Rep8(15)
        h01 == Rep8(1)
        x1  == Sub64(x0, And64(Shr64(x0, 1), m1))
        x2  == Add64(And64(x1, m2), And64(Shr64(x1, 2), m2))
        x3  == And64(Add64(x2, Shr64(x2, 4)), m4)
    IN  Low8(Shr64(Mul64(x3, h01), 56))

RECURSIVE SumBits(_, _)
SumBits(x, k) == IF k = 0 THEN 0 ELSE BitCount(x[k]) + SumBits(x, k - 1)

\* the POPCNT instruction (__builtin_popcountll on the other CPUs)
popcnt64(x) == SumBits(x, 8)

\* the 32-bit POPCNT instruction (__popcnt) on a value below 2^32
popcnt32(x) == SumBits(x, 4)

\* (uint32_t) x, kept as 8 bytes
Trunc32(x) == Tup([k \in 1..8 |-> IF k <= 4 THEN x[k] ELSE 0])

\* popcnt64 of the 32-bit x86 builds
popcnt64_split(x) == popcnt32(Trunc32(x)) + popcnt32(Trunc32(Shr64(x, 32)))

----------------------------------------------------------------------------
(* The caller's buffer *)

\* byte j of a buffer with contents p
PatByte(p, j) ==
    CASE p[1] = "ones" -> 255
      [] p[1] = "hot"  -> IF j = p[2] THEN 255 ELSE 0
      [] p[1] = "mix"  -> (j * 73 + (j \div 8) * 5 + (j \div 64) * 3 + p[2] * 29) % 256

\* the byte at data + j; outside [data, data + n0) memory holds anything
ByteAt(j) == IF j >= 0 /\ j < n0 THEN PatByte(pat, j) ELSE junk

\* *(const uint64_t*)(data + off)
LoadWord(off) == Tup([k \in 1..8 |-> ByteAt(off + k - 1)])

\* memcpy(&val, data + off, bytes) into uint64_t val = 0
MemcpyWord(off, bytes) == Tup([k \in 1..8 |-> IF k <= bytes THEN ByteAt(off + k - 1) ELSE 0])

Max(a, b) == IF a > b THEN a ELSE b

RECURSIVE RefSum(_, _, _)
\* sum of the per-byte bit counts of bytes lo .. hi-1 of contents p
RefSum(p, lo, hi) ==
    IF hi <= lo THEN 0
    ELSE IF hi = lo + 1 THEN BitCount(PatByte(p, lo))
    ELSE LET mid == (lo + hi) \div 2
         IN  RefSum(p, lo, mid) + RefSum(p, mid, hi)

----------------------------------------------------------------------------
(* Capability detection: get_cpuid() *)

bit_AVX2 == 32
bit_AVX512F == 65536
bit_POPCNT == 8388608
bit_AVX512_VPOPCNTDQ == 16384
XSTATE_SSE == 2
XSTATE_YMM == 4
XSTATE_ZMM == 224
osxsave_mask == 134217728

OrInt(a, b) == a + b - AndInt(a, b)

\* get_cpuid() trusting the CPUID feature bits without looking at XCR0
get_cpuid_no_xcr0(h) ==
    LET flags1 == IF AndInt(h.ecx1, bit_POPCNT) = bit_POPCNT THEN bit_POPCNT ELSE 0
        flags2 == IF AndInt(h.ebx7, bit_AVX2) = bit_AVX2
                  THEN OrInt(flags1, bit_AVX2) ELSE flags1
        flags3 == IF /\ AndInt(h.ebx7, bit_AVX512F) = bit_AVX512F
                     /\ AndInt(h.ecx7, bit_AVX512_VPOPCNTDQ) = bit_AVX512_VPOPCNTDQ
                  THEN OrInt(flags2, bit_AVX512_VPOPCNTDQ) ELSE flags2
    IN  IF AndInt(h.ecx1, osxsave_mask) # osxsave_mask THEN 0 ELSE flags3

\* h.ecx1: CPUID.1:ECX, h.xcr0: XGETBV(0), h.ebx7 / h.ecx7: CPUID.7.0:EBX / ECX
get_cpuid(h) ==
    LET flags1   == IF AndInt(h.ecx1, bit_POPCNT) = bit_POPCNT THEN bit_POPCNT ELSE 0
        ymm_mask == OrInt(XSTATE_SSE, XSTATE_YMM)
        zmm_mask == OrInt(OrInt(XSTATE_SSE, XSTATE_YMM), XSTATE_ZMM)
        flags2   == IF AndInt(h.ebx7, bit_AVX2) = bit_AVX2
                    THEN OrInt(flags1, bit_AVX2) ELSE flags1
        flags3   == IF /\ AndInt(h.xcr0, zmm_mask) = zmm_mask
                       /\ AndInt(h.ebx7, bit_AVX512F) = bit_AVX512F
                       /\ AndInt(h.ecx7, bit_AVX512_VPOPCNTDQ) = bit_AVX512_VPOPCNTDQ
                    THEN OrInt(flags2, bit_AVX512_VPOPCNTDQ) ELSE flags2
    IN  IF AndInt(h.ecx1, osxsave_mask) # osxsave_mask THEN 0
        ELSE IF AndInt(h.xcr0, ymm_mask) = ymm_mask THEN flags3
        ELSE flags1

----------------------------------------------------------------------------
(* AVX2 kernel: CSA256, popcnt256, popcnt_avx2.  An __m256i of data is 32    *)
(* bytes; the four 64-bit lanes of a counter vector are a 4-tuple of numbers *)

Zero256 == Tup([k \in 1..32 |-> 0])
ZeroCnt == <<0, 0, 0, 0>>

\* _mm256_loadu_si256 at data + off
Load256(off) == Tup([k \in 1..32 |-> ByteAt(off + k - 1)])

Xor256(a, b) == Tup([k \in 1..32 |-> ByteXor(a[k], b[k])])
And256(a, b) == Tup([k \in 1..32 |-> ByteAnd(a[k], b[k])])
Or256(a, b)  == Tup([k \in 1..32 |-> ByteOr(a[k], b[k])])

\* a carry-save adder whose h drops the carry out of (a ^ b) + c
CSA256_half(a, b, c) ==
    LET u == Xor256(a, b)
    IN  [h |-> And256(a, b), l |-> Xor256(u, c)]

\* CSA256(&h, &l, a, b, c)
CSA256(a, b, c) ==
    LET u == Xor256(a, b)
    IN  [h |-> Or256(And256(a, b), And256(u, c)), l |-> Xor256(u, c)]

lookup1 == <<4, 5, 5, 6, 5, 6, 6, 7, 5, 6, 6, 7, 6, 7, 7, 8,
             4, 5, 5, 6, 5, 6, 6, 7, 5, 6, 6, 7, 6, 7, 7, 8>>

lookup2 == <<4, 3, 3, 2, 3, 2, 2, 1, 3, 2, 2, 1, 2, 1, 1, 0,
             4, 3, 3, 2, 3, 2, 2, 1, 3, 2, 2, 1, 2, 1, 1, 0>>

\* _mm256_srli_epi16(v, n), n < 8: each 16-bit lane shifted right
Srli16(v, n) ==
    Tup([k \in 1..32 |->
        IF k % 2 = 1 THEN ((v[k] + 256 * v[k + 1]) \div Pow2(n)) % 256
        ELSE v[k] \div Pow2(n)])

\* _mm256_shuffle_epi8(tbl, idx): table lookup inside each 128-bit half
Shuffle8(tbl, idx) ==
    Tup([k \in 1..32 |->
        IF idx[k] >= 128 THEN 0
        ELSE tbl[16 * ((k - 1) \div 16) + (idx[k] % 16) + 1]])

Abs(x) == IF x < 0 THEN 0 - x ELSE x

RECURSIVE SadLane(_, _, _, _)
SadLane(a, b, l, k) ==
    IF k = 0 THEN 0
    ELSE Abs(a[8 * (l - 1) + k] - b[8 * (l - 1) + k]) + SadLane(a, b, l, k - 1)

\* _mm256_sad_epu8(a, b): per 64-bit lane, the sum of |a - b| over its 8 bytes
Sad8(a, b) == Tup([l \in 1..4 |-> SadLane(a, b, l, 8)])

\* popcnt256 looking up the low nibbles in both tables
popcnt256_no_shift(v) ==
    LET low_mask == Tup([k \in 1..32 |-> 15])
        lo       == And256(v, low_mask)
        popcnt1  == Shuffle8(lookup1, lo)
        popcnt2  == Shuffle8(lookup2, lo)
    IN  Sad8(popcnt1, popcnt2)

popcnt256(v) ==
    LET low_mask == Tup([k \in 1..32 |-> 15])
        lo       == And256(v, low_mask)
        hi       == And256(Srli16(v, 4), low_mask)
        popcnt1  == Shuffle8(lookup1, lo)
        popcnt2  == Shuffle8(lookup2, hi)
    IN  Sad8(popcnt1, popcnt2)

\* _mm256_add_epi64 and _mm256_slli_epi64 on counter vectors
Add4(a, b)  == Tup([l \in 1..4 |-> a[l] + b[l]])
Slli4(a, n) == Tup([l \in 1..4 |-> a[l] * Pow2(n)])

\* the 15 CSA256 calls of the loop body, in order: <<h, l, a, "reg", b, c>> stands
\* for CSA256(&h, &l, a, b, c), and <<h, l, a, "load", k, m>> for CSA256(&h, &l, a,
\* _mm256_loadu_si256(ptr + i + k), _mm256_loadu_si256(ptr + i + m))
CsaCalls ==
    << <<"twosA", "ones", "ones", "load", 0, 1>>,
       <<"twosB", "ones", "ones", "load", 2, 3>>,
       <<"foursA", "twos", "twos", "reg", "twosA", "twosB">>,
       <<"twosA", "ones", "ones", "load", 4, 5>>,
       <<"twosB", "ones", "ones", "load", 6, 7>>,
       <<"foursB", "twos", "twos", "reg", "twosA", "twosB">>,
       <<"eightsA", "fours", "fours", "reg", "foursA", "foursB">>,
       <<"twosA", "ones", "ones", "load", 8, 9>>,
       <<"twosB", "ones", "ones", "load", 10, 11>>,
       <<"foursA", "twos", "twos", "reg", "twosA", "twosB">>,
       <<"twosA", "ones", "ones", "load", 12, 13>>,
       <<"twosB", "ones", "ones", "load", 14, 15>>,
       <<"foursB", "twos", "twos", "reg", "twosA", "twosB">>,
       <<"eightsB", "fours", "fours", "reg", "foursA", "foursB">>,
       <<"sixteens", "eights", "eights", "reg", "eightsA", "eightsB">> >>

CsaRegs == {"ones", "twos", "fours", "eights", "sixteens",
            "twosA", "twosB", "foursA", "foursB", "eightsA", "eightsB"}

\* the second or third operand x of the CSA256 call c
CsaOperand(r, c, x, o, j) == IF c[4] = "reg" THEN r[x] ELSE Load256(o + 32 * (j + x))

\* one CSA256 call on the registers r
CsaCall(r, c, o, j) ==
    LET hl == CSA256(r[c[3]], CsaOperand(r, c, c[5], o, j), CsaOperand(r, c, c[6], o, j))
    IN  [x \in CsaRegs |-> IF x = c[1] THEN hl.h ELSE IF x = c[2] THEN hl.l ELSE r[x]]

RECURSIVE CsaRun(_, _, _, _)
CsaRun(r, k, o, j) ==
    IF k > Len(CsaCalls) THEN r ELSE CsaRun(CsaCall(r, CsaCalls[k], o, j), k + 1, o, j)

\* one iteration of the 16-vector loop of popcnt_avx2; o: byte offset of ptr
Avx2Block(s, o, j) ==
    LET r == CsaRun([x \in CsaRegs |-> IF x \in DOMAIN s THEN s[x] ELSE Zero256],
                    1, o, j)
    IN  [cnt    |-> Add4(s.cnt, popcnt256(r["sixteens"])),
         ones   |-> r["ones"],
         twos   |-> r["twos"],
         fours  |-> r["fours"],
         eights |-> r["eights"]]

RECURSIVE Avx2Blocks(_, _, _, _)
Avx2Blocks(s, o, j, lim16) ==
    IF j < lim16 THEN Avx2Blocks(Avx2Block(s, o, j), o, j + 16, lim16) ELSE s

RECURSIVE Avx2Rest(_, _, _, _)
Avx2Rest(c, o, j, n) ==
    IF j < n THEN Avx2Rest(Add4(c, popcnt256(Load256(o + 32 * j))), o, j + 1, n)
    ELSE c

\* popcnt_avx2(ptr, n): ptr = data + o, n vectors.  rd: bytes [o, rd) were read
popcnt_avx2(o, n) ==
    LET lim16 == n - (n % 16)
        s  == Avx2Blocks([cnt |-> ZeroCnt, ones |-> Zero256, twos |-> Zero256,
                          fours |-> Zero256, eights |-> Zero256], o, 0, lim16)
        c1 == Slli4(s.cnt, 4)
        c2 == Add4(c1, Slli4(popcnt256(s.eights), 3))
        c3 == Add4(c2, Slli4(popcnt256(s.fours), 2))
        c4 == Add4(c3, Slli4(popcnt256(s.twos), 1))
        c5 == Add4(c4, popcnt256(s.ones))
        c6 == Avx2Rest(c5, o, lim16, n)
    IN  [cnt |-> c6[1] + c6[2] + c6[3] + c6[4],
         rd  |-> IF n > 0 THEN o + 32 * n ELSE 0]

----------------------------------------------------------------------------
(* AVX512 kernel: popcnt_avx512.  An __m512i is 8 words *)

\* _mm512_maskz_loadu_epi64(mask, &ptr[j]): lane l is loaded iff bit l of mask
MaskzLoad512(mask, off) ==
    Tup([l \in 1..8 |->
        IF (mask \div Pow2(l - 1)) % 2 = 1 THEN LoadWord(off + 8 * (l - 1))
        ELSE Rep8(0)])

\* 1 + the highest byte offset a masked load touches, 0 if no lane is enabled
MaskzExtent(mask, off) ==
    LET on == {l \in 1..8 : (mask \div Pow2(l - 1)) % 2 = 1}
    IN  IF on = {} THEN 0
        ELSE off + 8 * (CHOOSE l \in on : \A m \in on : m <= l)

\* _mm512_reduce_add_epi64(_mm512_popcnt_epi64(vec))
PopcntSum512(vec) ==
    popcnt64(vec[1]) + popcnt64(vec[2]) + popcnt64(vec[3]) + popcnt64(vec[4])
    + popcnt64(vec[5]) + popcnt64(vec[6]) + popcnt64(vec[7]) + popcnt64(vec[8])

RECURSIVE Avx512Loop(_, _, _, _)
\* the main loop: [j |-> the index it stops at, cnt |-> the sum of its lanes]
Avx512Loop(o, n, j, c) ==
    IF j + 8 < n
    THEN Avx512Loop(o, n, j + 8, c + PopcntSum512(MaskzLoad512(255, o + 8 * j)))
    ELSE [j |-> j, cnt |-> c]

\* popcnt_avx512(ptr, n): ptr = data + o, n words
popcnt_avx512(o, n) ==
    LET m    == Avx512Loop(o, n, 0, 0)
        mask == (255 \div Pow2(m.j + 8 - n)) % 256
    IN  [cnt |-> m.cnt + PopcntSum512(MaskzLoad512(mask, o + 8 * m.j)),
         rd  |-> Max(IF m.j > 0 THEN o + 8 * m.j ELSE 0,
                     MaskzExtent(mask, o + 8 * m.j))]

----------------------------------------------------------------------------
(* Bounds of the exploration *)

MaxSmall == 40      \* buffers of 0 .. MaxSmall bytes, and
MaxBig == 33        \*   of AVX2_MIN - 1 + d bytes, d in 0 .. MaxBig
MaxSeed == 1        \* "mix" contents with seeds 0 .. MaxSeed
HotEdge == 2        \* big buffers: one 0xFF byte within HotEdge of either end

AVX2_MIN == 512
AVX512_MIN == 32

\* contents tried for a buffer of s bytes: all ones, pseudo-random, and a
\* single 0xFF byte (at every offset of a small buffer)
Patterns(s) ==
    {<<"ones", 0>>}
    \cup {<<"mix", k>> : k \in 0..MaxSeed}
    \cup {<<"hot", k>> : k \in {j \in 0..(s - 1) :
                                   s <= MaxSmall \/ j < HotEdge \/ j >= s - HotEdge}}

JunkBytes == {0, 255}

\* every answer of CPUID.1:ECX, XCR0, CPUID.7:EBX, CPUID.7:ECX on the bits
\* get_cpuid() looks at, ZMM state bits 5, 6, 7 taken one by one
HwAll ==
    [ecx1 : {a + b : a \in {0, bit_POPCNT}, b \in {0, osxsave_mask}},
     xcr0 : {a + b + c + d + e : a \in {0, XSTATE_SSE}, b \in {0, XSTATE_YMM},
                                 c \in {0, 32}, d \in {0, 64}, e \in {0, 128}},
     ebx7 : {a + b : a \in {0, bit_AVX2}, b \in {0, bit_AVX512F}},
     ecx7 : {0, bit_AVX512_VPOPCNTDQ}]

\* machines for the dispatcher: one per value get_cpuid() can return, and one
\* whose OS does not manage extended state
X86Hw ==
    {h \in HwAll :
        /\ h.xcr0 = XSTATE_SSE + XSTATE_YMM + XSTATE_ZMM
        /\ h.ecx7 = bit_AVX512_VPOPCNTDQ
        /\ (AndInt(h.ecx1, osxsave_mask) = 0
              => h.ecx1 = bit_POPCNT /\ h.ebx7 = bit_AVX2 + bit_AVX512F)}

NoHw == [ecx1 |-> 0, xcr0 |-> 0, ebx7 |-> 0, ecx7 |-> 0]

X86Sizes == (0..MaxSmall) \cup {AVX2_MIN - 1 + d : d \in 0..MaxBig}

\* the state at the call of popcnt(data, s) of build a, data % 8 = al
CallInit(a, s, al, h, v) ==
    /\ arch = a
    /\ pc = "start"
    /\ size = s
    /\ n0 = s
    /\ pat \in Patterns(s)
    /\ addr = al
    /\ junk \in JunkBytes
    /\ hw = h
    /\ cpuid = -1
    /\ vl = v
    /\ ptr = 0
    /\ i = 0
    /\ cnt = 0
    /\ rdmax = 0
    /\ kernel = {}
    /\ iters = 0
    /\ limit = 0
    /\ tacc = <<>>
    /\ sum = <<>>
    /\ word = <<>>
    /\ ret = <<>>
    /\ regs = <<>>
    /\ cpuid_ = -1
    /\ tpc = <<>>
    /\ tlocal = <<>>
    /\ tused = <<>>
    /\ tcalls = <<>>
    /\ tdet = <<>>
    /\ tstart = <<>>

----------------------------------------------------------------------------
(* popcnt(data, size), x86 CPUs *)

RECURSIVE PopcntWords(_, _, _)
\* for (; j < end; j += 8) cnt += popcnt64(*(const uint64_t*)(ptr + j))
PopcntWords(j, end, c) ==
    IF j < end THEN PopcntWords(j + 8, end, c + popcnt64(LoadWord(j))) ELSE c

RECURSIVE PopcntBytes(_, _, _)
\* for (; j < end; j++) cnt += popcnt64(ptr[j])
PopcntBytes(j, end, c) ==
    IF j < end THEN PopcntBytes(j + 1, end, c + popcnt64(ZeroExt(ByteAt(j)))) ELSE c

RECURSIVE BitwiseWords(_, _, _)
\* for (; j < end; j += 8) cnt += popcnt64_bitwise(*(const uint64_t*)(ptr + j))
BitwiseWords(j, end, c) ==
    IF j < end THEN BitwiseWords(j + 8, end, c + popcnt64_bitwise(LoadWord(j))) ELSE c

\* the value of j when a loop "for (; j < end; j += step)" exits
LoopExit(j, end, step) ==
    IF j < end THEN j + step * ((end - j + step - 1) \div step) ELSE j

\* static cpuid = get_cpuid(), or the first call's cpuid_ == -1 branch
X86_Cpuid ==
    /\ arch = "x86" /\ pc = "start"
    /\ cpuid' = get_cpuid(hw)
    /\ pc' = "avx512"
    /\ UNCHANGED <<callerv, neonv, size, ptr, i, cnt, rdmax, kernel>>

avx512_taken == AndInt(cpuid, bit_AVX512_VPOPCNTDQ) # 0 /\ i + AVX512_MIN <= size

X86_Avx512 ==
    /\ arch = "x86" /\ pc = "avx512"
    /\ IF avx512_taken
       THEN LET r == popcnt_avx512(i, (size - i) \div 8)
            IN  /\ cnt' = cnt + r.cnt
                /\ i' = size - (size % 8)
                /\ rdmax' = Max(rdmax, r.rd)
                /\ kernel' = kernel \cup {"avx512"}
       ELSE UNCHANGED <<cnt, i, rdmax, kernel>>
    /\ pc' = "avx2"
    /\ UNCHANGED <<callerv, neonv, cpuid, size, ptr>>

\* the AVX2 threshold compared with < instead of <=
avx2_taken_one_early == AndInt(cpuid, bit_AVX2) # 0 /\ i + AVX2_MIN <= size + 1

avx2_taken == AndInt(cpuid, bit_AVX2) # 0 /\ i + AVX2_MIN <= size

\* the AVX2 block resuming at the word boundary of the AVX512 block
X86_Avx2_Resume8 ==
    /\ arch = "x86" /\ pc = "avx2"
    /\ IF avx2_taken
       THEN LET r == popcnt_avx2(i, (size - i) \div 32)
            IN  /\ cnt' = cnt + r.cnt
                /\ i' = size - (size % 8)
                /\ rdmax' = Max(rdmax, r.rd)
                /\ kernel' = kernel \cup {"avx2"}
       ELSE UNCHANGED <<cnt, i, rdmax, kernel>>
    /\ pc' = IF AndInt(cpuid, bit_POPCNT) # 0 THEN "popcnt" ELSE "bitwise"
    /\ UNCHANGED <<callerv, neonv, cpuid, size, ptr>>

X86_Avx2 ==
    /\ arch = "x86" /\ pc = "avx2"
    /\ IF avx2_taken
       THEN LET r == popcnt_avx2(i, (size - i) \div 32)
            IN  /\ cnt' = cnt + r.cnt
                /\ i' = size - (size % 32)
                /\ rdmax' = Max(rdmax, r.rd)
                /\ kernel' = kernel \cup {"avx2"}
       ELSE UNCHANGED <<cnt, i, rdmax, kernel>>
    /\ pc' = IF AndInt(cpuid, bit_POPCNT) # 0 THEN "popcnt" ELSE "bitwise"
    /\ UNCHANGED <<callerv, neonv, cpuid, size, ptr>>

\* if (cpuid & bit_POPCNT): the word loop, the byte loop, return cnt
X86_Popcnt ==
    /\ arch = "x86" /\ pc = "popcnt"
    /\ LET end == size - (size % 8)
           j   == LoopExit(i, end, 8)
       IN  /\ cnt' = PopcntBytes(j, size, PopcntWords(i, end, cnt))
           /\ i' = LoopExit(j, size, 1)
           /\ rdmax' = IF i < size THEN Max(rdmax, LoopExit(j, size, 1)) ELSE rdmax
    /\ pc' = "done"
    /\ UNCHANGED <<callerv, neonv, cpuid, size, ptr, kernel>>

\* the pure integer algorithm: the word loop, the memcpy tail, return cnt
X86_Bitwise ==
    /\ arch = "x86" /\ pc = "bitwise"
    /\ LET end == size - (size % 8)
           j   == LoopExit(i, end, 8)
           c   == BitwiseWords(i, end, cnt)
       IN  /\ i' = j
           /\ cnt' = IF j < size
                     THEN c + popcnt64_bitwise(MemcpyWord(j, size - j)) ELSE c
           /\ rdmax' = IF j < size THEN Max(rdmax, size)
                       ELSE IF i < end THEN Max(rdmax, j) ELSE rdmax
    /\ pc' = "done"
    /\ UNCHANGED <<callerv, neonv, cpuid, size, ptr, kernel>>

InitX86 == \E s \in X86Sizes, h \in X86Hw : CallInit("x86", s, 0, h, 0)

NextX86 == X86_Cpuid \/ X86_Avx512 \/ X86_Avx2 \/ X86_Popcnt \/ X86_Bitwise

SpecX86 == InitX86 /\ [][NextX86]_vars

----------------------------------------------------------------------------
(* popcnt(data, size), all other CPUs.  One action per loop iteration *)

MaxOther == 24      \* buffers of 0 .. MaxOther bytes at every data % 8

\* the test applied to the offset from data instead of the address
Misaligned_OffsetOnly(j) == (ptr + j) % 8 # 0

\* (uintptr_t)(ptr + j) % 8 != 0
Misaligned(j) == (addr + ptr + j) % 8 # 0

\* the alignment loop entered whatever the size
Other_Start_NoGuard ==
    /\ arch = "other" /\ pc = "start"
    /\ pc' = "align"
    /\ UNCHANGED <<callerv, neonv, cpuid, size, ptr, i, cnt, rdmax, kernel>>

\* if (size >= 8)
Other_Start ==
    /\ arch = "other" /\ pc = "start"
    /\ pc' = IF size >= 8 THEN "align" ELSE "bytes"
    /\ UNCHANGED <<callerv, neonv, cpuid, size, ptr, i, cnt, rdmax, kernel>>

\* for (; (uintptr_t)(ptr + i) % 8; i++) cnt += popcnt64(ptr[i])
Other_Align ==
    /\ arch = "other" /\ pc = "align"
    /\ IF Misaligned(i)
       THEN /\ cnt' = cnt + popcnt64(ZeroExt(ByteAt(ptr + i)))
            /\ rdmax' = Max(rdmax, ptr + i + 1)
            /\ i' = i + 1
            /\ pc' = "align"
       ELSE /\ pc' = "words"
            /\ UNCHANGED <<cnt, rdmax, i>>
    /\ UNCHANGED <<callerv, neonv, cpuid, size, ptr, kernel>>

\* for (; i < size - size % 8; i += 8) cnt += popcnt64(*(const uint64_t*)(ptr + i))
Other_Word ==
    /\ arch = "other" /\ pc = "words"
    /\ IF i < size - (size % 8)
       THEN /\ cnt' = cnt + popcnt64(LoadWord(ptr + i))
            /\ rdmax' = Max(rdmax, ptr + i + 8)
            /\ i' = i + 8
            /\ pc' = "words"
       ELSE /\ pc' = "bytes"
            /\ UNCHANGED <<cnt, rdmax, i>>
    /\ UNCHANGED <<callerv, neonv, cpuid, size, ptr, kernel>>

\* for (; i < size; i++) cnt += popcnt64(ptr[i]); return cnt
Other_Byte ==
    /\ arch = "other" /\ pc = "bytes"
    /\ IF i < size
       THEN /\ cnt' = cnt + popcnt64(ZeroExt(ByteAt(ptr + i)))
            /\ rdmax' = Max(rdmax, ptr + i + 1)
            /\ i' = i + 1
            /\ pc' = "bytes"
       ELSE /\ pc' = "done"
            /\ UNCHANGED <<cnt, rdmax, i>>
    /\ UNCHANGED <<callerv, neonv, cpuid, size, ptr, kernel>>

InitOther == \E s \in 0..MaxOther, al \in 0..7 : CallInit("other", s, al, NoHw, 0)

NextOther == Other_Start \/ Other_Align \/ Other_Word \/ Other_Byte

SpecOther == InitOther /\ [][NextOther]_vars

----------------------------------------------------------------------------
(* popcnt(data, size), ARM NEON.  arch "neon" is the build with              *)
(* __ARM_FEATURE_UNALIGNED, arch "neon_aligned" the build without it.        *)

chunk_size == 64
FLUSH_EVERY == 31

MaxFlushes == 2     \* FLUSH_EVERY * f - 1 .. FLUSH_EVERY * f + 1 chunks, f in 0 .. MaxFlushes
MaxRem == 17        \* plus 0 .. MaxRem more bytes
MaxAlignedChunks == 1

IsNeon == arch \in {"neon", "neon_aligned"}

Zero16 == Tup([k \in 1..16 |-> 0])

\* vld4q_u8(data + off).val[v]: lane k holds byte 4 * k + v of the 64
Vld4(off, v) == Tup([k \in 1..16 |-> ByteAt(off + 4 * (k - 1) + v)])

\* vaddq_u8(t, vcntq_u8(x)): 8-bit lanes, modulo 256
AddCnt8(t, x) == Tup([k \in 1..16 |-> (t[k] + BitCount(x[k])) % 256])

RECURSIVE SumLanes(_, _, _)
SumLanes(t, lo, hi) == IF lo > hi THEN 0 ELSE t[lo] + SumLanes(t, lo + 1, hi)

\* vpadalq(sum, t) = vpadalq_u32(sum, vpaddlq_u16(vpaddlq_u8(t)))
vpadalq(sm, t) == <<sm[1] + SumLanes(t, 1, 8), sm[2] + SumLanes(t, 9, 16)>>

\* flushing after 32 iterations instead of 31
NeonLimit_Late(j, n) == IF j + FLUSH_EVERY + 1 < n THEN j + FLUSH_EVERY + 1 ELSE n

\* limit = (j + 31 < n) ? j + 31 : n
NeonLimit(j, n) == IF j + FLUSH_EVERY < n THEN j + FLUSH_EVERY ELSE n

\* if (size >= chunk_size) { iters = size / chunk_size; sum = 0; ...
Neon_Start ==
    /\ IsNeon /\ pc = "start"
    /\ IF size >= chunk_size
       THEN /\ iters' = size \div chunk_size
            /\ sum' = <<0, 0>>
            /\ pc' = "outer"
       ELSE /\ pc' = "words"
            /\ UNCHANGED <<iters, sum>>
    /\ UNCHANGED <<callerv, cpuid, size, ptr, i, cnt, rdmax, kernel, limit, tacc>>

\* t0 .. t3 declared before the do loop: zeroed once, never again
Neon_Outer_NoReset ==
    /\ IsNeon /\ pc = "outer"
    /\ tacc' = IF tacc = <<>> THEN <<Zero16, Zero16, Zero16, Zero16>> ELSE tacc
    /\ limit' = NeonLimit(i, iters)
    /\ pc' = "chunk"
    /\ UNCHANGED <<callerv, cpuid, size, ptr, i, cnt, rdmax, kernel, iters, sum>>

\* do { t0 = t1 = t2 = t3 = zero; limit = (i + 31 < iters) ? i + 31 : iters;
Neon_Outer ==
    /\ IsNeon /\ pc = "outer"
    /\ tacc' = <<Zero16, Zero16, Zero16, Zero16>>
    /\ limit' = NeonLimit(i, iters)
    /\ pc' = "chunk"
    /\ UNCHANGED <<callerv, cpuid, size, ptr, i, cnt, rdmax, kernel, iters, sum>>

\* for (; i < limit; i++) { input = vld4q_u8(ptr); ptr += chunk_size; t0..t3 += cnt }
Neon_Chunk ==
    /\ IsNeon /\ pc = "chunk"
    /\ IF i < limit
       THEN /\ tacc' = <<AddCnt8(tacc[1], Vld4(ptr, 0)), AddCnt8(tacc[2], Vld4(ptr, 1)),
                         AddCnt8(tacc[3], Vld4(ptr, 2)), AddCnt8(tacc[4], Vld4(ptr, 3))>>
            /\ rdmax' = Max(rdmax, ptr + chunk_size)
            /\ ptr' = ptr + chunk_size
            /\ i' = i + 1
            /\ pc' = "chunk"
       ELSE /\ pc' = "flush"
            /\ UNCHANGED <<tacc, rdmax, ptr, i>>
    /\ UNCHANGED <<callerv, cpuid, size, cnt, kernel, iters, limit, sum>>

\* sum = vpadalq(sum, t0..t3); } while (i < iters);
\* i = 0; size %= chunk_size; cnt += tmp[0]; cnt += tmp[1];
Neon_Flush ==
    /\ IsNeon /\ pc = "flush"
    /\ LET sm == vpadalq(vpadalq(vpadalq(vpadalq(sum, tacc[1]), tacc[2]), tacc[3]), tacc[4])
       IN  /\ sum' = sm
           /\ IF i < iters
              THEN /\ pc' = "outer"
                   /\ UNCHANGED <<i, size, cnt>>
              ELSE /\ i' = 0
                   /\ size' = size % chunk_size
                   /\ cnt' = cnt + sm[1] + sm[2]
                   /\ pc' = "words"
    /\ UNCHANGED <<callerv, cpuid, ptr, rdmax, kernel, iters, limit, tacc>>

\* "neon": straight to the word loop.
\* "neon_aligned": if (i + 8 <= size) align, then the word loop; else the tail
Neon_Words ==
    /\ IsNeon /\ pc = "words"
    /\ pc' = IF arch = "neon" THEN "word"
             ELSE IF i + 8 <= size THEN "align" ELSE "tail"
    /\ UNCHANGED <<callerv, neonv, cpuid, size, ptr, i, cnt, rdmax, kernel>>

\* for (; (uintptr_t)(ptr + i) % 8; i++) cnt += popcnt64(ptr[i])
Neon_Align ==
    /\ IsNeon /\ pc = "align"
    /\ IF Misaligned(i)
       THEN /\ cnt' = cnt + popcnt64(ZeroExt(ByteAt(ptr + i)))
            /\ rdmax' = Max(rdmax, ptr + i + 1)
            /\ i' = i + 1
            /\ pc' = "align"
       ELSE /\ pc' = "word"
            /\ UNCHANGED <<cnt, rdmax, i>>
    /\ UNCHANGED <<callerv, neonv, cpuid, size, ptr, kernel>>

\* for (; i < size - size % 8; i += 8) cnt += popcnt64(*(const uint64_t*)(ptr + i))
Neon_Word ==
    /\ IsNeon /\ pc = "word"
    /\ IF i < size - (size % 8)
       THEN /\ cnt' = cnt + popcnt64(LoadWord(ptr + i))
            /\ rdmax' = Max(rdmax, ptr + i + 8)
            /\ i' = i + 8
            /\ pc' = "word"
       ELSE /\ pc' = "tail"
            /\ UNCHANGED <<cnt, rdmax, i>>
    /\ UNCHANGED <<callerv, neonv, cpuid, size, ptr, kernel>>

\* if (i < size) { val = 0; memcpy(&val, &ptr[i], size - i); cnt += popcnt64(val); }
Neon_Tail ==
    /\ IsNeon /\ pc = "tail"
    /\ IF i < size
       THEN /\ cnt' = cnt + popcnt64(MemcpyWord(ptr + i, size - i))
            /\ rdmax' = Max(rdmax, ptr + size)
       ELSE UNCHANGED <<cnt, rdmax>>
    /\ pc' = "done"
    /\ UNCHANGED <<callerv, neonv, cpuid, size, ptr, i, kernel>>

NeonChunks ==
    {c \in {FLUSH_EVERY * f + d - 1 : f \in 0..MaxFlushes, d \in 0..2} : c >= 0}

InitNeon ==
    \E c \in NeonChunks, r \in 0..MaxRem :
        CallInit("neon", chunk_size * c + r, 0, NoHw, 0)

InitNeonAligned ==
    \E c \in 0..MaxAlignedChunks, r \in 0..MaxRem, al \in 0..7 :
        CallInit("neon_aligned", chunk_size * c + r, al, NoHw, 0)

\* the build with __ARM_FEATURE_UNALIGNED has no alignment loop
NextNeon ==
    \/ Neon_Start \/ Neon_Outer \/ Neon_Chunk \/ Neon_Flush
    \/ Neon_Words \/ Neon_Word \/ Neon_Tail

SpecNeon == InitNeon /\ [][NextNeon]_vars

NextNeonAligned == NextNeon \/ Neon_Align

\* the two dispatchers that align before loading words
InitAligned == InitOther \/ InitNeonAligned
NextAligned == NextOther \/ NextNeonAligned
SpecAligned == InitAligned /\ [][NextAligned]_vars

----------------------------------------------------------------------------
(* popcnt(data, size), ARM SVE.  `iters` holds the local size64 and `sum`    *)
(* the lanes of vcnt; lane l of pg = svwhilelt_b64(i, size64) is active iff  *)
(* i + l < size64 (l counted from 0).                                        *)

\* svcntd() of 128, 256, 512, 1024 and 2048-bit implementations
SveLanes == {2, 4, 8, 16, 32}

\* svadd_u64_z(ptrue, vcnt, svcnt_u64_z(pg, svld1_u64(pg, &ptr64[j])))
SveAccumulate(vc, j, size64) ==
    Tup([l \in 1..vl |->
        IF j + l - 1 < size64 THEN vc[l] + popcnt64(LoadWord(8 * (j + l - 1)))
        ELSE vc[l]])

\* size64 = size / 8; pg = svwhilelt_b64(i, size64); vcnt = svdup_u64(0)
Sve_Start ==
    /\ arch = "sve" /\ pc = "start"
    /\ iters' = size \div 8
    /\ sum' = Tup([l \in 1..vl |-> 0])
    /\ pc' = "loop"
    /\ UNCHANGED <<callerv, cpuid, size, ptr, i, cnt, rdmax, kernel, limit, tacc>>

\* do { ...; i += svcntd(); pg = svwhilelt_b64(i, size64); } while (svptest_any(pg))
Sve_Iter ==
    /\ arch = "sve" /\ pc = "loop"
    /\ sum' = SveAccumulate(sum, i, iters)
    /\ rdmax' = IF i < iters THEN Max(rdmax, 8 * Min(i + vl, iters)) ELSE rdmax
    /\ i' = i + vl
    /\ pc' = IF i + vl < iters THEN "loop" ELSE "tail"
    /\ UNCHANGED <<callerv, cpuid, size, ptr, cnt, kernel, iters, limit, tacc>>

\* cnt = svaddv_u64(vcnt); size %= 8;
\* if (size > 0) { val = 0; memcpy(&val, &ptr64[i], size); cnt += popcnt64(val); }
Sve_Tail ==
    /\ arch = "sve" /\ pc = "tail"
    /\ size' = size % 8
    /\ IF size % 8 > 0
       THEN /\ cnt' = SumLanes(sum, 1, vl) + popcnt64(MemcpyWord(8 * i, size % 8))
            /\ rdmax' = Max(rdmax, 8 * i + (size % 8))
       ELSE /\ cnt' = SumLanes(sum, 1, vl)
            /\ UNCHANGED rdmax
    /\ pc' = "done"
    /\ UNCHANGED <<callerv, neonv, cpuid, ptr, i, kernel>>

InitSve == \E s \in 0..MaxSmall, v \in SveLanes : CallInit("sve", s, 0, NoHw, v)

NextSve == Sve_Start \/ Sve_Iter \/ Sve_Tail

SpecSve == InitSve /\ [][NextSve]_vars

----------------------------------------------------------------------------
(* The cpuid_ cache of the C build of x86 popcnt(), with concurrent callers. *)
(* The plain read `int cpuid = cpuid_` races with the compare-and-swap of    *)
(* another thread; an aligned int load observes either the value before or   *)
(* the value after the swap, which is what the interleaving below produces.  *)

NumThreads == 3
MaxCalls == 2

Threads == DOMAIN tpc

\* a compare-and-swap that expects 0 instead of the sentinel
sync_cas_zero(cur, new) == IF cur = 0 THEN new ELSE cur

\* __sync_val_compare_and_swap(&cpuid_, -1, cpuid): the new value of cpuid_
sync_cas(cur, new) == IF cur = -1 THEN new ELSE cur

\* popcnt() is entered
T_Call ==
    \E t \in Threads :
        /\ tpc[t] = "idle" /\ tcalls[t] < MaxCalls
        /\ tcalls' = [tcalls EXCEPT ![t] = @ + 1]
        /\ tstart' = [tstart EXCEPT ![t] = cpuid_]
        /\ tdet' = [tdet EXCEPT ![t] = FALSE]
        /\ tpc' = [tpc EXCEPT ![t] = "read"]
        /\ UNCHANGED <<bufvars, cpuid_, tlocal, tused>>

\* the read without the test of the sentinel: every call detects again
T_Read_Always ==
    \E t \in Threads :
        /\ tpc[t] = "read"
        /\ tlocal' = [tlocal EXCEPT ![t] = cpuid_]
        /\ tpc' = [tpc EXCEPT ![t] = "detect"]
        /\ UNCHANGED <<bufvars, cpuid_, tused, tcalls, tdet, tstart>>

\* int cpuid = cpuid_; if (cpuid == -1)
T_Read ==
    \E t \in Threads :
        /\ tpc[t] = "read"
        /\ tlocal' = [tlocal EXCEPT ![t] = cpuid_]
        /\ tpc' = [tpc EXCEPT ![t] = IF cpuid_ = -1 THEN "detect" ELSE "dispatch"]
        /\ UNCHANGED <<bufvars, cpuid_, tused, tcalls, tdet, tstart>>

\* cpuid = get_cpuid();
T_Detect ==
    \E t \in Threads :
        /\ tpc[t] = "detect"
        /\ tlocal' = [tlocal EXCEPT ![t] = get_cpuid(hw)]
        /\ tdet' = [tdet EXCEPT ![t] = TRUE]
        /\ tpc' = [tpc EXCEPT ![t] = "cas"]
        /\ UNCHANGED <<bufvars, cpuid_, tused, tcalls, tstart>>

\* __sync_val_compare_and_swap(&cpuid_, -1, cpuid);
T_Cas ==
    \E t \in Threads :
        /\ tpc[t] = "cas"
        /\ cpuid_' = sync_cas(cpuid_, tlocal[t])
        /\ tpc' = [tpc EXCEPT ![t] = "dispatch"]
        /\ UNCHANGED <<bufvars, tlocal, tused, tcalls, tdet, tstart>>

\* the tiers are selected with the local cpuid; popcnt() returns
T_Dispatch ==
    \E t \in Threads :
        /\ tpc[t] = "dispatch"
        /\ tused' = [tused EXCEPT ![t] = <<tlocal[t]>>]
        /\ tpc' = [tpc EXCEPT ![t] = "idle"]
        /\ UNCHANGED <<bufvars, cpuid_, tlocal, tcalls, tdet, tstart>>

\* the process before any call, n threads, on machine h
CacheInit(n, h) ==
    /\ arch = "x86" /\ pc = "idle" /\ pat = <<"ones", 0>>
    /\ size = 0 /\ n0 = 0 /\ addr = 0 /\ junk = 0
    /\ hw = h
    /\ cpuid = -1 /\ vl = 0 /\ ptr = 0 /\ i = 0 /\ cnt = 0 /\ rdmax = 0
    /\ kernel = {} /\ iters = 0 /\ limit = 0 /\ tacc = <<>> /\ sum = <<>>
    /\ word = <<>> /\ ret = <<>> /\ regs = <<>>
    /\ cpuid_ = -1
    /\ tpc = [t \in 1..n |-> "idle"]
    /\ tlocal = [t \in 1..n |-> -1]
    /\ tused = [t \in 1..n |-> <<>>]
    /\ tcalls = [t \in 1..n |-> 0]
    /\ tdet = [t \in 1..n |-> FALSE]
    /\ tstart = [t \in 1..n |-> -1]

NextCache == T_Call \/ T_Read \/ T_Detect \/ T_Cas \/ T_Dispatch

\* machines whose get_cpuid() differs: all flags, no flag, no OS extended state
CacheHw == {h \in X86Hw : h.ebx7 = bit_AVX2 + bit_AVX512F}

\* concurrent callers
InitCache == \E h \in CacheHw : CacheInit(NumThreads, h)
SpecCache == InitCache /\ [][NextCache]_vars

\* one caller, every answer of CPUID and XGETBV
InitCpuid == \E h \in HwAll : CacheInit(1, h)
SpecCpuid == InitCpuid /\ [][NextCache]_vars

----------------------------------------------------------------------------
(* The x86, portable and NEON dispatchers side by side *)

InitX86Small == \E s \in 0..MaxSmall, h \in X86Hw : CallInit("x86", s, 0, h, 0)

InitDispatch == InitX86Small \/ InitAligned \/ InitNeon
NextDispatch == NextX86 \/ NextAligned
SpecDispatch == InitDispatch /\ [][NextDispatch]_vars

----------------------------------------------------------------------------
(* The word counters, each applied to the same 64-bit argument *)

MaxWordSeed == 15   \* pseudo-random words with seeds 0 .. MaxWordSeed

\* the word with only bit n set
OneHot(n) == Tup([k \in 1..8 |-> IF k - 1 = n \div 8 THEN Pow2(n % 8) ELSE 0])

\* ~x
Not64(x) == Tup([k \in 1..8 |-> 255 - x[k]])

\* the word with exactly its n low bits set: 2^n - 1
LowOnes(n) ==
    Tup([k \in 1..8 |->
        IF 8 * k <= n THEN 255
        ELSE IF 8 * (k - 1) >= n THEN 0
        ELSE Pow2(n - 8 * (k - 1)) - 1])

\* arguments tried: every byte value repeated (0 and all-ones among them), every
\* single bit and its complement, every bit count 0 .. 64, pseudo-random words
WordInputs ==
    {Rep8(b) : b \in 0..255}
    \cup {OneHot(n) : n \in 0..63}
    \cup {Not64(OneHot(n)) : n \in 0..63}
    \cup {LowOnes(n) : n \in 0..64}
    \cup {Tup([k \in 1..8 |-> PatByte(<<"mix", sd>>, 8 * sd + k)]) : sd \in 0..MaxWordSeed}

\* ret with the result r of word counter v added
Returned(v, r) == [u \in DOMAIN ret \cup {v} |-> IF u = v THEN r ELSE ret[u]]

\* popcnt64_bitwise(x)
W_Bitwise ==
    /\ arch = "word" /\ "bitwise" \notin DOMAIN ret
    /\ ret' = Returned("bitwise", popcnt64_bitwise(word))
    /\ UNCHANGED <<bufferv, neonv, cpuid, size, ptr, i, cnt, rdmax, kernel, pc, word, regs>>

\* popcnt64(x) of the builds with a 64-bit POPCNT instruction or builtin
W_Popcnt64 ==
    /\ arch = "word" /\ "popcnt64" \notin DOMAIN ret
    /\ ret' = Returned("popcnt64", popcnt64(word))
    /\ UNCHANGED <<bufferv, neonv, cpuid, size, ptr, i, cnt, rdmax, kernel, pc, word, regs>>

\* popcnt64(x) of the 32-bit x86 builds
W_Split ==
    /\ arch = "word" /\ "split" \notin DOMAIN ret
    /\ ret' = Returned("split", popcnt64_split(word))
    /\ UNCHANGED <<bufferv, neonv, cpuid, size, ptr, i, cnt, rdmax, kernel, pc, word, regs>>

\* no buffer, no call of popcnt(): only the argument w of the word counters
InitWord ==
    /\ word \in WordInputs
    /\ arch = "word" /\ pc = "start" /\ pat = <<"ones", 0>>
    /\ size = 0 /\ n0 = 0 /\ addr = 0 /\ junk = 0
    /\ hw = NoHw
    /\ cpuid = -1 /\ vl = 0 /\ ptr = 0 /\ i = 0 /\ cnt = 0 /\ rdmax = 0
    /\ kernel = {} /\ iters = 0 /\ limit = 0 /\ tacc = <<>> /\ sum = <<>>
    /\ ret = <<>> /\ regs = <<>>
    /\ cpuid_ = -1
    /\ tpc = <<>> /\ tlocal = <<>> /\ tused = <<>> /\ tcalls = <<>>
    /\ tdet = <<>> /\ tstart = <<>>

NextWord == W_Bitwise \/ W_Popcnt64 \/ W_Split

SpecWord == InitWord /\ [][NextWord]_vars

----------------------------------------------------------------------------
(* The Harley-Seal kernels on their own, one action per loop iteration:      *)
(* popcnt_avx2 of libpopcnt.h on 32-byte elements (arch "popcnt_avx2") and   *)
(* popcnt_harley_seal of popcnt.h on 64-bit elements (arch                   *)
(* "popcnt_harley_seal").  `size` is the kernel's size argument, in          *)
(* elements; `regs` holds ones, twos, fours, eights and the running count.   *)
(* popcnt_harley_seal is compiled in the branch of popcnt.h whose popcnt64   *)
(* is the mask-shift-multiply word counter.                                  *)

MaxElems == 34      \* kernels called with 0 .. MaxElems elements

Xor64(x, y) == Tup([k \in 1..8 |-> ByteXor(x[k], y[k])])
Or64(x, y)  == Tup([k \in 1..8 |-> ByteOr(x[k], y[k])])

\* CSA(h, l, a, b, c) of popcnt.h
CSA(a, b, c) ==
    LET u == Xor64(a, b)
    IN  [h |-> Or64(And64(a, b), And64(u, c)), l |-> Xor64(u, c)]

\* the second or third operand x of the CSA call c: a register or data[j + x]
CsaOperand64(r, c, x, j) == IF c[4] = "reg" THEN r[x] ELSE LoadWord(8 * (j + x))

\* one CSA call on the registers r
CsaCall64(r, c, j) ==
    LET hl == CSA(r[c[3]], CsaOperand64(r, c, c[5], j), CsaOperand64(r, c, c[6], j))
    IN  [x \in CsaRegs |-> IF x = c[1] THEN hl.h ELSE IF x = c[2] THEN hl.l ELSE r[x]]

RECURSIVE CsaRun64(_, _, _)
\* the 15 CSA calls of popcnt_harley_seal's loop body: the calls of CsaCalls
CsaRun64(r, k, j) ==
    IF k > Len(CsaCalls) THEN r ELSE CsaRun64(CsaCall64(r, CsaCalls[k], j), k + 1, j)

\* one iteration of the 16-word loop of popcnt_harley_seal
HarleySealBlock(s, j) ==
    LET r == CsaRun64([x \in CsaRegs |-> IF x \in DOMAIN s THEN s[x] ELSE Rep8(0)], 1, j)
    IN  [total  |-> s.total + popcnt64_bitwise(r["sixteens"]),
         ones   |-> r["ones"],
         twos   |-> r["twos"],
         fours  |-> r["fours"],
         eights |-> r["eights"]]

IsKernel == arch \in {"popcnt_avx2", "popcnt_harley_seal"}

\* bytes per element: sizeof(__m256i), sizeof(uint64_t)
ElemBytes == IF arch = "popcnt_avx2" THEN 32 ELSE 8

\* what the actions of a kernel leave alone
kfixed == <<bufferv, cpuid, ptr, kernel, iters, tacc, sum, word, ret>>

\* popcnt_avx2(ptr, size): the locals before the loop
Avx2_Start ==
    /\ arch = "popcnt_avx2" /\ pc = "start"
    /\ size' = n0 \div 32
    /\ regs' = [cnt |-> ZeroCnt, ones |-> Zero256, twos |-> Zero256,
                fours |-> Zero256, eights |-> Zero256]
    /\ i' = 0
    /\ limit' = (n0 \div 32) - ((n0 \div 32) % 16)
    /\ pc' = "block"
    /\ UNCHANGED <<kfixed, cnt, rdmax>>

\* for (; i < limit; i += 16) { 15 x CSA256; cnt += popcnt256(sixteens); }
Avx2_Block ==
    /\ arch = "popcnt_avx2" /\ pc = "block"
    /\ IF i < limit
       THEN /\ regs' = Avx2Block(regs, 0, i)
            /\ rdmax' = Max(rdmax, 32 * (i + 16))
            /\ i' = i + 16
            /\ pc' = "block"
       ELSE /\ pc' = "weights"
            /\ UNCHANGED <<regs, rdmax, i>>
    /\ UNCHANGED <<kfixed, size, cnt, limit>>

\* cnt = cnt << 4; cnt += popcnt256(eights) << 3; ... cnt += popcnt256(ones);
Avx2_Weights ==
    /\ arch = "popcnt_avx2" /\ pc = "weights"
    /\ LET c1 == Slli4(regs.cnt, 4)
           c2 == Add4(c1, Slli4(popcnt256(regs.eights), 3))
           c3 == Add4(c2, Slli4(popcnt256(regs.fours), 2))
           c4 == Add4(c3, Slli4(popcnt256(regs.twos), 1))
       IN  regs' = [regs EXCEPT !.cnt = Add4(c4, popcnt256(regs.ones))]
    /\ pc' = "rest"
    /\ UNCHANGED <<kfixed, size, i, cnt, rdmax, limit>>

\* for (; i < size; i++) cnt += popcnt256(ptr[i]); return the sum of the 4 lanes
Avx2_Rest ==
    /\ arch = "popcnt_avx2" /\ pc = "rest"
    /\ IF i < size
       THEN /\ regs' = [regs EXCEPT !.cnt = Add4(@, popcnt256(Load256(32 * i)))]
            /\ rdmax' = Max(rdmax, 32 * (i + 1))
            /\ i' = i + 1
            /\ pc' = "rest"
            /\ UNCHANGED cnt
       ELSE /\ cnt' = regs.cnt[1] + regs.cnt[2] + regs.cnt[3] + regs.cnt[4]
            /\ pc' = "done"
            /\ UNCHANGED <<regs, rdmax, i>>
    /\ UNCHANGED <<kfixed, size, limit>>

\* popcnt_harley_seal(data, size): if (size == 0) return 0; the locals
HarleySeal_Start ==
    /\ arch = "popcnt_harley_seal" /\ pc = "start"
    /\ size' = n0 \div 8
    /\ i' = 0
    /\ IF n0 \div 8 = 0
       THEN /\ pc' = "done"
            /\ UNCHANGED <<regs, limit>>
       ELSE /\ regs' = [total |-> 0, ones |-> Rep8(0), twos |-> Rep8(0),
                       fours |-> Rep8(0), eights |-> Rep8(0)]
            /\ limit' = (n0 \div 8) - ((n0 \div 8) % 16)
            /\ pc' = "block"
    /\ UNCHANGED <<kfixed, cnt, rdmax>>

\* for (; i < limit; i += 16) { 15 x CSA; total += popcnt64(sixteens); }
HarleySeal_Block ==
    /\ arch = "popcnt_harley_seal" /\ pc = "block"
    /\ IF i < limit
       THEN /\ regs' = HarleySealBlock(regs, i)
            /\ rdmax' = Max(rdmax, 8 * (i + 16))
            /\ i' = i + 16
            /\ pc' = "block"
       ELSE /\ pc' = "weights"
            /\ UNCHANGED <<regs, rdmax, i>>
    /\ UNCHANGED <<kfixed, size, cnt, limit>>

\* total *= 16; total += 8 * popcnt64(eights); ... total += 1 * popcnt64(ones);
HarleySeal_Weights ==
    /\ arch = "popcnt_harley_seal" /\ pc = "weights"
    /\ regs' = [regs EXCEPT !.total =
                    16 * @ + 8 * popcnt64_bitwise(regs.eights)
                    + 4 * popcnt64_bitwise(regs.fours)
                    + 2 * popcnt64_bitwise(regs.twos)
                    + 1 * popcnt64_bitwise(regs.ones)]
    /\ pc' = "rest"
    /\ UNCHANGED <<kfixed, size, i, cnt, rdmax, limit>>

\* for (; i < size; i++) total += popcnt64(data[i]); return total
HarleySeal_Rest ==
    /\ arch = "popcnt_harley_seal" /\ pc = "rest"
    /\ IF i < size
       THEN /\ regs' = [regs EXCEPT !.total = @ + popcnt64_bitwise(LoadWord(8 * i))]
            /\ rdmax' = Max(rdmax, 8 * (i + 1))
            /\ i' = i + 1
            /\ pc' = "rest"
            /\ UNCHANGED cnt
       ELSE /\ cnt' = regs.total
            /\ pc' = "done"
            /\ UNCHANGED <<regs, rdmax, i>>
    /\ UNCHANGED <<kfixed, size, limit>>

InitKernel ==
    \E e \in 0..MaxElems :
        \/ CallInit("popcnt_avx2", 32 * e, 0, NoHw, 0)
        \/ CallInit("popcnt_harley_seal", 8 * e, 0, NoHw, 0)

NextKernel ==
    \/ Avx2_Start \/ Avx2_Block \/ Avx2_Weights \/ Avx2_Rest
    \/ HarleySeal_Start \/ HarleySeal_Block \/ HarleySeal_Weights \/ HarleySeal_Rest

SpecKernel == InitKernel /\ [][NextKernel]_vars

----------------------------------------------------------------------------
(* popcnt256 applied to one vector (arch "popcnt256"): `word` holds the 32   *)
(* bytes of the argument v, `ret` the four 64-bit lanes returned.            *)

MaxVecSeed == 31    \* pseudo-random vectors with seeds 0 .. MaxVecSeed

\* arguments tried: every byte value in all 32 positions, one 0xFF byte at
\* each position, pseudo-random vectors
VecInputs ==
    {Tup([k \in 1..32 |-> b]) : b \in 0..255}
    \cup {Tup([k \in 1..32 |-> IF k = p THEN 255 ELSE 0]) : p \in 1..32}
    \cup {Tup([k \in 1..32 |-> PatByte(<<"mix", sd>>, 32 * sd + k)]) : sd \in 0..MaxVecSeed}

\* popcnt256(v)
P256_Apply ==
    /\ arch = "popcnt256" /\ ret = <<>>
    /\ ret' = popcnt256(word)
    /\ UNCHANGED <<bufferv, neonv, cpuid, size, ptr, i, cnt, rdmax, kernel, pc, word, regs>>

InitP256 ==
    /\ word \in VecInputs
    /\ arch = "popcnt256" /\ pc = "start" /\ pat = <<"ones", 0>>
    /\ size = 0 /\ n0 = 0 /\ addr = 0 /\ junk = 0
    /\ hw = NoHw
    /\ cpuid = -1 /\ vl = 0 /\ ptr = 0 /\ i = 0 /\ cnt = 0 /\ rdmax = 0
    /\ kernel = {} /\ iters = 0 /\ limit = 0 /\ tacc = <<>> /\ sum = <<>>
    /\ ret = <<>> /\ regs = <<>>
    /\ cpuid_ = -1
    /\ tpc = <<>> /\ tlocal = <<>> /\ tused = <<>> /\ tcalls = <<>>
    /\ tdet = <<>> /\ tstart = <<>>

NextP256 == P256_Apply

SpecP256 == InitP256 /\ [][NextP256]_vars

----------------------------------------------------------------------------
(* popcnt_avx512 on its own (arch "popcnt_avx512"), one action per loop      *)
(* iteration.  `size` is its size argument, in 64-bit words; regs.cnt holds  *)
(* the 8 lanes of cnt, regs.shift and regs.mask the operand of >> and mask.  *)

MaxWords512 == 25   \* popcnt_avx512 called with 0 .. MaxWords512 words

\* a mask that enables all 8 lanes whatever is left
TailMask_Full(j, n) == 255

\* (__mmask8) (0xff >> (j + 8 - n))
TailMask(j, n) == (255 \div Pow2(j + 8 - n)) % 256

\* _mm512_add_epi64(c, _mm512_popcnt_epi64(vec))
AddPopcnt512(c, vec) == Tup([l \in 1..8 |-> c[l] + popcnt64(vec[l])])

\* the lanes (counted from 0) that mask enables
MaskLanes(mask) == {l \in 0..7 : (mask \div Pow2(l)) % 2 = 1}

\* __m512i cnt = _mm512_setzero_si512(); uint64_t i = 0;
Avx512_Start ==
    /\ arch = "popcnt_avx512" /\ pc = "start"
    /\ size' = n0 \div 8
    /\ i' = 0
    /\ regs' = [cnt |-> <<0, 0, 0, 0, 0, 0, 0, 0>>, shift |-> 0, mask |-> 0]
    /\ pc' = "loop"
    /\ UNCHANGED <<kfixed, cnt, rdmax, limit>>

\* for (; i + 8 < size; i += 8) cnt += popcnt(_mm512_loadu_epi64(&ptr[i]))
Avx512_Iter ==
    /\ arch = "popcnt_avx512" /\ pc = "loop"
    /\ IF i + 8 < size
       THEN /\ regs' = [regs EXCEPT !.cnt = AddPopcnt512(@, MaskzLoad512(255, 8 * i))]
            /\ rdmax' = Max(rdmax, 8 * (i + 8))
            /\ i' = i + 8
            /\ pc' = "loop"
       ELSE /\ pc' = "tail"
            /\ UNCHANGED <<regs, rdmax, i>>
    /\ UNCHANGED <<kfixed, size, cnt, limit>>

\* mask = 0xff >> (i + 8 - size); cnt += popcnt(maskz_loadu(mask, &ptr[i]));
\* return _mm512_reduce_add_epi64(cnt);
Avx512_Tail ==
    /\ arch = "popcnt_avx512" /\ pc = "tail"
    /\ LET mask == TailMask(i, size)
           c    == AddPopcnt512(regs.cnt, MaskzLoad512(mask, 8 * i))
       IN  /\ regs' = [cnt |-> c, shift |-> i + 8 - size, mask |-> mask]
           /\ cnt' = SumLanes(c, 1, 8)
           /\ rdmax' = Max(rdmax, MaskzExtent(mask, 8 * i))
    /\ pc' = "done"
    /\ UNCHANGED <<kfixed, size, i, limit>>

\* the caller passes (size - i) / 8 words of a buffer of 8 * w + r bytes
InitAvx512 ==
    \E w \in 0..MaxWords512, r \in 0..7 : CallInit("popcnt_avx512", 8 * w + r, 0, NoHw, 0)

NextAvx512 == Avx512_Start \/ Avx512_Iter \/ Avx512_Tail

SpecAvx512 == InitAvx512 /\ [][NextAvx512]_vars

----------------------------------------------------------------------------
(* popcnt(data, size) of popcnt.h (arch "legacy"), in the build whose        *)
(* popcnt64 is __builtin_popcountll (HAVE_POPCNT64 defined).  `cnt` holds    *)
(* the local `total`.                                                        *)

MaxLegacy == 72     \* buffers of 0 .. MaxLegacy bytes

\* _mm256_sub_epi8 / _mm256_add_epi8: 8-bit lanes, modulo 256
Sub8(a, b) == Tup([k \in 1..32 |-> (a[k] - b[k]) % 256])
Add8(a, b) == Tup([k \in 1..32 |-> (a[k] + b[k]) % 256])

popcnt_m256i(v) ==
    LET m1 == Tup([k \in 1..32 |-> 85])
        m2 == Tup([k \in 1..32 |-> 51])
        m4 == Tup([k \in 1..32 |-> 15])
        t1 == Sub8(v, And256(Srli16(v, 1), m1))
        t2 == Add8(And256(t1, m2), And256(Srli16(t1, 2), m2))
        t3 == And256(Add8(t2, Srli16(t2, 4)), m4)
    IN  Sad8(t3, Zero256)

\* CSA_m256i(h, l, a, b, c)
CSA_m256i(a, b, c) ==
    LET u == Xor256(a, b)
    IN  [h |-> Or256(And256(a, b), And256(u, c)), l |-> Xor256(u, c)]

\* the second or third operand x of the CSA_m256i call c: a register or data[j + x]
CsaOperandM(r, c, x, o, j) == IF c[4] = "reg" THEN r[x] ELSE Load256(o + 32 * (j + x))

CsaCallM(r, c, o, j) ==
    LET hl == CSA_m256i(r[c[3]], CsaOperandM(r, c, c[5], o, j), CsaOperandM(r, c, c[6], o, j))
    IN  [x \in CsaRegs |-> IF x = c[1] THEN hl.h ELSE IF x = c[2] THEN hl.l ELSE r[x]]

RECURSIVE CsaRunM(_, _, _, _)
\* the 15 CSA_m256i calls of the loop body: the calls of CsaCalls
CsaRunM(r, k, o, j) ==
    IF k > Len(CsaCalls) THEN r ELSE CsaRunM(CsaCallM(r, CsaCalls[k], o, j), k + 1, o, j)

RECURSIVE HsAvx2Blocks(_, _, _, _)
\* for (; i < limit; i += 16) { 15 x CSA_m256i; total += popcnt_m256i(sixteens); }
HsAvx2Blocks(t, o, j, lim16) ==
    IF j < lim16
    THEN LET r == CsaRunM([x \in CsaRegs |-> IF x \in DOMAIN t THEN t[x] ELSE Zero256],
                          1, o, j)
         IN  HsAvx2Blocks([total  |-> Add4(t.total, popcnt_m256i(r["sixteens"])),
                           ones   |-> r["ones"],
                           twos   |-> r["twos"],
                           fours  |-> r["fours"],
                           eights |-> r["eights"]], o, j + 16, lim16)
    ELSE t

RECURSIVE HsAvx2Rest(_, _, _, _)
\* for (; i < size; i++) total += popcnt_m256i(data[i])
HsAvx2Rest(c, o, j, n) ==
    IF j < n THEN HsAvx2Rest(Add4(c, popcnt_m256i(Load256(o + 32 * j))), o, j + 1, n)
    ELSE c

\* popcnt_harley_seal_avx2(data, n): data at byte offset o, n vectors
popcnt_harley_seal_avx2(o, n) ==
    IF n = 0 THEN [cnt |-> 0, rd |-> 0]
    ELSE LET lim16 == n - (n % 16)
             t  == HsAvx2Blocks([total |-> ZeroCnt, ones |-> Zero256, twos |-> Zero256,
                                 fours |-> Zero256, eights |-> Zero256], o, 0, lim16)
             c1 == Slli4(t.total, 4)
             c2 == Add4(c1, Slli4(popcnt_m256i(t.eights), 3))
             c3 == Add4(c2, Slli4(popcnt_m256i(t.fours), 2))
             c4 == Add4(c3, Slli4(popcnt_m256i(t.twos), 1))
             c5 == Add4(c4, popcnt_m256i(t.ones))
             c6 == HsAvx2Rest(c5, o, lim16, n)
         IN  [cnt |-> c6[1] + c6[2] + c6[3] + c6[4], rd |-> o + 32 * n]

RECURSIVE UnrolledLoop(_, _, _, _)
\* for (; i < limit; i += 4) { sum0 += popcnt64(data[i+0]); ... sum3 += popcnt64(data[i+3]); }
UnrolledLoop(o, j, lim4, sums) ==
    IF j < lim4
    THEN UnrolledLoop(o, j + 4, lim4,
             <<sums[1] + popcnt64(LoadWord(o + 8 * (j + 0))),
               sums[2] + popcnt64(LoadWord(o + 8 * (j + 1))),
               sums[3] + popcnt64(LoadWord(o + 8 * (j + 2))),
               sums[4] + popcnt64(LoadWord(o + 8 * (j + 3)))>>)
    ELSE sums

RECURSIVE UnrolledRest(_, _, _, _)
\* for (; i < size; i++) total += popcnt64(data[i])
UnrolledRest(o, j, n, total) ==
    IF j < n THEN UnrolledRest(o, j + 1, n, total + popcnt64(LoadWord(o + 8 * j)))
    ELSE total

\* popcnt64_unrolled(data, n): data at byte offset o, n 64-bit words
popcnt64_unrolled(o, n) ==
    IF n = 0 THEN [cnt |-> 0, rd |-> 0]
    ELSE LET lim4 == n - (n % 4)
             sums == UnrolledLoop(o, 0, lim4, <<0, 0, 0, 0>>)
         IN  [cnt |-> UnrolledRest(o, lim4, n, sums[1] + sums[2] + sums[3] + sums[4]),
              rd  |-> o + 8 * n]

\* total += popcnt_harley_seal_avx2((const __m256i*) data, size / 32);
Legacy_Avx2 ==
    /\ arch = "legacy" /\ pc = "start"
    /\ LET r == popcnt_harley_seal_avx2(0, size \div 32)
       IN  /\ cnt' = cnt + r.cnt
           /\ rdmax' = Max(rdmax, r.rd)
    /\ pc' = "unrolled"
    /\ UNCHANGED <<callerv, neonv, cpuid, size, ptr, i, kernel>>

\* total += popcnt64_unrolled((const uint64_t*) (data + size - size % 32), size % 32);
Legacy_Unrolled ==
    /\ arch = "legacy" /\ pc = "unrolled"
    /\ LET r == popcnt64_unrolled(size - (size % 32), size % 32)
       IN  /\ cnt' = cnt + r.cnt
           /\ rdmax' = Max(rdmax, r.rd)
    /\ i' = size - (size % 8)
    /\ pc' = "bytes"
    /\ UNCHANGED <<callerv, neonv, cpuid, size, ptr, kernel>>

\* for (uint64_t i = size - size % 8; i < size; i++) total += popcnt64(data[i]);
\* return total;
Legacy_Byte ==
    /\ arch = "legacy" /\ pc = "bytes"
    /\ IF i < size
       THEN /\ cnt' = cnt + popcnt64(ZeroExt(ByteAt(i)))
            /\ rdmax' = Max(rdmax, i + 1)
            /\ i' = i + 1
            /\ pc' = "bytes"
       ELSE /\ pc' = "done"
            /\ UNCHANGED <<cnt, rdmax, i>>
    /\ UNCHANGED <<callerv, neonv, cpuid, size, ptr, kernel>>

InitLegacy == \E s \in 0..MaxLegacy : CallInit("legacy", s, 0, NoHw, 0)

NextLegacy == Legacy_Avx2 \/ Legacy_Unrolled \/ Legacy_Byte

SpecLegacy == InitLegacy /\ [][NextLegacy]_vars

----------------------------------------------------------------------------
(* Properties *)

\* the sum over the caller's buffer of the number of set bits of each byte
Expected == RefSum(pat, 0, n0)

RECURSIVE TwoTo(_)
TwoTo(n) == IF n = 0 THEN 1 ELSE 2 * TwoTo(n - 1)

\* bit number b of x is set
HasBit(x, b) == (x \div TwoTo(b)) % 2 = 1

\* C1: x86 popcnt returns the sum of the per-byte bit counts of the buffer,
\* for every content, size and value of the capability flags, whichever
\* kernel tier is taken
C1_X86CountsEveryByteOnce ==
    (arch = "x86" /\ pc = "done") => cnt = Expected

\* C1 witness: the AVX2 kernel ran on a buffer that is not a whole number of
\* vectors, on a CPU without POPCNT, and the call returned a non-zero count
C1_Witness ==
    /\ arch = "x86" /\ pc = "done"
    /\ kernel = {"avx2"}
    /\ n0 % 32 # 0
    /\ ~HasBit(cpuid, 23)
    /\ cnt > 0

\* C2: the portable popcnt returns the sum of the per-byte bit counts for
\* every size and every alignment of data modulo 8
C2_PortableCountsEveryByte ==
    (arch = "other" /\ pc = "done") => cnt = Expected

\* C3: in the portable popcnt and the NEON popcnt without unaligned access,
\* every byte read lies inside [data, data + size), and the alignment loop
\* never advances i past size
C3_ReadsInsideBuffer ==
    arch \in {"other", "neon_aligned"} =>
        /\ rdmax <= n0
        /\ (pc = "align" => i <= size)

\* C4: the SVE popcnt returns the sum of the per-byte bit counts for every
\* size and every svcntd(), the tail bytes being those at [size - size % 8, size)
C4_SveCountsEveryByte ==
    (arch = "sve" /\ pc = "done") => cnt = Expected /\ rdmax <= n0

\* C5: the NEON popcnt with unaligned access returns the sum of the per-byte
\* bit counts: every whole 64-byte chunk is consumed once (ptr ends right
\* after the last one), the other size % 64 bytes once, nothing else is read
C5_NeonCountsEveryByte ==
    (arch = "neon" /\ pc = "done") =>
        /\ cnt = Expected
        /\ ptr = chunk_size * (n0 \div chunk_size)
        /\ size = n0 % chunk_size
        /\ rdmax = n0

\* C5 witness: more than 31 chunks, so several flushes, then words and a tail
C5_Witness ==
    /\ arch = "neon" /\ pc = "done"
    /\ iters > FLUSH_EVERY
    /\ size >= 8 /\ size % 8 # 0
    /\ cnt = Expected /\ cnt > 0

\* C6: for size 0 the x86, portable and NEON popcnt read nothing through data
\* and return 0, whatever the capability flags
C6_ZeroSizeReadsNothing ==
    (arch \in {"x86", "other", "neon", "neon_aligned"} /\ n0 = 0) =>
        /\ rdmax = 0
        /\ cnt = 0

\* C6 witness: a returned call of x86 popcnt on an empty buffer with all three
\* capability flags detected
C6_Witness ==
    /\ arch = "x86" /\ pc = "done" /\ n0 = 0
    /\ HasBit(cpuid, 23) /\ HasBit(cpuid, 5) /\ HasBit(cpuid, 14)

Detected(t) == tdet[t] /\ tpc[t] \in {"cas", "dispatch"}

OsHasYmm == HasBit(hw.ecx1, 27) /\ HasBit(hw.xcr0, 1) /\ HasBit(hw.xcr0, 2)

\* C7: get_cpuid() reports AVX2 only if OSXSAVE is set and XCR0 has SSE and
\* YMM; AVX512_VPOPCNTDQ only if additionally XCR0 has bits 5, 6 and 7 and
\* CPUID.7 reports AVX512F and AVX512_VPOPCNTDQ
C7_VectorFlagsNeedOsState ==
    \A t \in Threads :
        Detected(t) =>
            /\ HasBit(tlocal[t], 5) => OsHasYmm
            /\ HasBit(tlocal[t], 14) =>
                /\ OsHasYmm
                /\ HasBit(hw.xcr0, 5) /\ HasBit(hw.xcr0, 6) /\ HasBit(hw.xcr0, 7)
                /\ HasBit(hw.ebx7, 16) /\ HasBit(hw.ecx7, 14)

\* C7 witness: get_cpuid() returned both vector flags
C7_Witness ==
    \E t \in Threads :
        Detected(t) /\ HasBit(tlocal[t], 5) /\ HasBit(tlocal[t], 14)

\* C8: get_cpuid() reports POPCNT exactly when CPUID.1:ECX bit 23 is set; the
\* OSXSAVE and XCR0 checks never remove it
C8_PopcntFlagIsCpuidBit ==
    \A t \in Threads :
        Detected(t) => (HasBit(tlocal[t], 23) <=> HasBit(hw.ecx1, 23))

AllReturned ==
    /\ \A t \in Threads : tpc[t] = "idle"
    /\ \E t \in Threads : tcalls[t] > 0

\* C9: under any interleaving of concurrent first calls every call dispatches
\* on get_cpuid()'s result, never on the sentinel -1, and once all calls have
\* returned cpuid_ holds that value
C9_CallsDispatchOnDetectedFlags ==
    /\ \A t \in Threads :
          /\ tused[t] # <<>> => tused[t][1] = get_cpuid(hw) /\ tused[t][1] # -1
          /\ tpc[t] = "dispatch" => tlocal[t] = get_cpuid(hw) /\ tlocal[t] # -1
    /\ AllReturned => cpuid_ = get_cpuid(hw)

\* C9 witness: two threads raced through get_cpuid() in their first calls and
\* every call has returned
C9_Witness ==
    /\ AllReturned
    /\ \E t, u \in Threads : t # u /\ tdet[t] /\ tdet[u] /\ tcalls[t] = 1 /\ tcalls[u] = 1

\* a call that started when cpuid_ was set uses that value, without get_cpuid()
ReadsCache(t) ==
    (tpc[t] # "idle" /\ tstart[t] # -1) =>
        /\ ~tdet[t]
        /\ tpc[t] \in {"read", "dispatch"}
        /\ tpc[t] = "dispatch" => tlocal[t] = tstart[t]

\* C10: cpuid_ changes at most once, from -1 to the detected flags, and every
\* call that starts after it holds a non-sentinel value reads it and does not
\* invoke get_cpuid() again
C10_CacheIsWriteOnce ==
    /\ [][cpuid_' # cpuid_ => cpuid_ = -1 /\ cpuid_' = get_cpuid(hw) /\ cpuid_' # -1]_vars
    /\ [](\A t \in Threads : ReadsCache(t))

\* C10 witness: a call that started with the cache set is about to dispatch
C10_Witness ==
    \E t \in Threads : tpc[t] = "dispatch" /\ tstart[t] # -1 /\ tcalls[t] = MaxCalls

\* C11: a call of x86 popcnt invokes at most one vector kernel: popcnt_avx512
\* exactly when the AVX512 flag is set and size >= 32, popcnt_avx2 exactly when
\* the AVX2 flag is set, popcnt_avx512 was not invoked and size >= 512; at
\* size 31 (resp. 511) popcnt_avx512 (resp. popcnt_avx2) is not invoked
C11_OneKernelAtItsThreshold ==
    arch = "x86" =>
        /\ Cardinality(kernel) <= 1
        /\ n0 < AVX512_MIN => "avx512" \notin kernel
        /\ n0 < AVX2_MIN => "avx2" \notin kernel
        /\ pc \in {"avx2", "popcnt", "bitwise", "done"} =>
              ("avx512" \in kernel <=> (HasBit(cpuid, 14) /\ n0 >= AVX512_MIN))
        /\ pc \in {"popcnt", "bitwise", "done"} =>
              ("avx2" \in kernel <=>
                  (HasBit(cpuid, 5) /\ "avx512" \notin kernel /\ n0 >= AVX2_MIN))

\* C11 witness: both vector flags detected and a buffer of at least 512 bytes:
\* the call returned having invoked popcnt_avx512 only
C11_Witness ==
    /\ arch = "x86" /\ pc = "done"
    /\ HasBit(cpuid, 5) /\ HasBit(cpuid, 14)
    /\ n0 >= AVX2_MIN
    /\ kernel = {"avx512"}

RECURSIVE BitsOfWord(_, _)
\* the number of 1 bits among the bytes k .. 8 of the word x
BitsOfWord(x, k) == IF k > 8 THEN 0 ELSE Bits(x[k]) + BitsOfWord(x, k + 1)

\* C12: popcnt64_bitwise(x) is the number of 1 bits of x, between 0 and 64, for
\* every 64-bit x; the hardware popcnt64 and the 32-bit split
\* popcnt32(low) + popcnt32(high) return the same value
C12_BitwiseCountsTheBits ==
    arch = "word" =>
        \A v \in DOMAIN ret :
            /\ ret[v] = BitsOfWord(word, 1)
            /\ ret[v] >= 0 /\ ret[v] <= 64
            /\ \A u \in DOMAIN ret : ret[u] = ret[v]

\* C12 witness: the three word counters returned 64 for the all-ones word
C12_Witness ==
    /\ arch = "word"
    /\ word = Rep8(255)
    /\ DOMAIN ret = {"bitwise", "popcnt64", "split"}
    /\ ret["bitwise"] = 64

RECURSIVE BitsOfReg(_, _)
\* the number of 1 bits of the bytes 1 .. k of the register x
BitsOfReg(x, k) == IF k = 0 THEN 0 ELSE Bits(x[k]) + BitsOfReg(x, k - 1)

\* the running count of the kernel: the four lanes of cnt, or total
RunningCount ==
    IF arch = "popcnt_avx2" THEN regs.cnt[1] + regs.cnt[2] + regs.cnt[3] + regs.cnt[4]
    ELSE regs.total

\* 16 * cnt + 8 * bits(eights) + 4 * bits(fours) + 2 * bits(twos) + bits(ones)
WeightedSum ==
    16 * RunningCount
    + 8 * BitsOfReg(regs.eights, ElemBytes) + 4 * BitsOfReg(regs.fours, ElemBytes)
    + 2 * BitsOfReg(regs.twos, ElemBytes) + BitsOfReg(regs.ones, ElemBytes)

C14_NeonLanesNeverWrap ==
    /\ [][(IsNeon /\ pc = "chunk" /\ i < limit) =>
             \A v \in 1..4 : \A k \in 1..16 :
                 /\ tacc'[v][k] = tacc[v][k] + BitCount(Vld4(ptr, v - 1)[k])
                 /\ tacc'[v][k] <= 255]_vars
    /\ []((IsNeon /\ pc \in {"chunk", "flush"}) =>
             /\ limit <= iters
             /\ \A v \in 1..4 : \A k \in 1..16 : tacc[v][k] <= 8 * FLUSH_EVERY)

\* C14 witness: a second batch of 31 chunks of all-ones bytes is about to be
\* flushed, with 248 in a lane and chunks still to come
C14_Witness ==
    /\ arch = "neon" /\ pc = "flush"
    /\ i = 2 * FLUSH_EVERY /\ i < iters
    /\ tacc[1][1] = 8 * FLUSH_EVERY /\ tacc[4][16] = 8 * FLUSH_EVERY

\* C15: popcnt(data, size) of popcnt.h returns the sum of the per-byte bit
\* counts of data[0 .. size-1] and reads nothing outside the buffer: the
\* vector kernel takes the size / 32 whole blocks, popcnt64_unrolled the
\* (size % 32) / 8 whole words after them, the byte loop the last size % 8 bytes
C15_LegacyCountsEveryByte ==
    (arch = "legacy" /\ pc = "done") => cnt = Expected /\ rdmax <= n0

\* the address (uintptr_t)(ptr + i), modulo 8
AddrMod8 == (addr + ptr + i) % 8

\* C16: in the portable popcnt and the NEON popcnt without unaligned access
\* the alignment loop counts leading bytes one at a time, each at an address
\* that is not a multiple of 8, so the word loop starts, and every 64-bit word
\* is loaded, at an address that is a multiple of 8, whatever data % 8 and size
C16_WordLoadsAreAligned ==
    /\ (arch = "other" /\ pc = "words") => AddrMod8 = 0
    /\ (arch = "neon_aligned" /\ pc = "word") => AddrMod8 = 0
    /\ (arch \in {"other", "neon_aligned"} /\ pc = "align") =>
          /\ i < 8
          /\ \A k \in 0..(i - 1) : (addr + ptr + k) % 8 # 0

\* C16 witness: data % 8 = 3: five leading bytes were counted one by one and
\* one word has been loaded after them
C16_Witness ==
    /\ arch = "other" /\ pc = "words"
    /\ addr = 3 /\ i = 5 + 8
    /\ cnt > 0

\* C17: popcnt_avx512(ptr, size) counts the words ptr[0 .. size-1] once each:
\* when the main loop has exited the shift amount i + 8 - size is between 0
\* and 8, the masked load enables exactly the size - i low lanes (none when
\* size is 0), no lane at index >= size is loaded, and the value returned is
\* the sum of the bit counts of the size words
C17_Avx512MaskCoversTheRest ==
    arch = "popcnt_avx512" =>
        /\ rdmax <= 8 * size
        /\ pc = "tail" => i <= size /\ i + 8 >= size /\ i % 8 = 0
        /\ pc = "done" =>
              /\ regs.shift >= 0 /\ regs.shift <= 8
              /\ MaskLanes(regs.mask) = 0..(size - i - 1)
              /\ cnt = RefSum(pat, 0, 8 * size)

\* C17 witness: popcnt_avx512 returned after two whole iterations and a masked
\* load of three lanes
C17_Witness ==
    /\ arch = "popcnt_avx512" /\ pc = "done"
    /\ i = 16 /\ size = 19
    /\ regs.mask = 7
    /\ cnt > 0

\* |lookup1[low nibble of b] - lookup2[high nibble of b]|
NibbleDiff(b) == Abs(lookup1[(b % 16) + 1] - lookup2[(b \div 16) + 1])

\* C18: lookup1[n] = 4 + bits(n) and lookup2[n] = 4 - bits(n) for every nibble
\* n, in both 128-bit halves of the tables, so |lookup1[low] - lookup2[high]|
\* is the bit count of a byte; popcnt256(v) holds in each 64-bit lane the
\* number of set bits of the 8 bytes of that lane of v, at most 64
C18_Popcnt256CountsEachLane ==
    /\ \A n \in 0..15 :
          /\ lookup1[n + 1] = 4 + Bits(n) /\ lookup1[n + 17] = 4 + Bits(n)
          /\ lookup2[n + 1] = 4 - Bits(n) /\ lookup2[n + 17] = 4 - Bits(n)
    /\ arch = "popcnt256" =>
          /\ \A k \in 1..32 : NibbleDiff(word[k]) = Bits(word[k])
          /\ ret # <<>> =>
                \A l \in 1..4 :
                    /\ ret[l] = BitsOfReg(word, 8 * l) - BitsOfReg(word, 8 * (l - 1))
                    /\ ret[l] <= 64

\* C18 witness: popcnt256 returned four different lane counts
C18_Witness ==
    /\ arch = "popcnt256" /\ ret # <<>>
    /\ Cardinality({ret[l] : l \in 1..4}) = 4

====
